---- MODULE Spec2Model ----
(***************************************************************************)
(* Model of the diff pipeline of seodiff (src/diff.py):                    *)
(*   compute_diff  - difflib.ndiff over two lists of text units            *)
(*   pretty_diff   - the renderer with its two line counters               *)
(* Strings are sequences of one-character strings; Python's 0-based,       *)
(* half-open index ranges are kept and element i of s is s[i+1].           *)
(***************************************************************************)
EXTENDS Integers, Sequences, FiniteSets, TLC

\* ------------------------------------------------------------------ bounds
MaxLen == 2        \* longest input (in text units) given to compute_diff
MaxCalls == 3      \* render calls made in a row on one script (SpecCalls)
MaxCallLen == 1    \* longest input (in text units) under SpecCalls

\* The text units the inputs are built from: a blank sentence, a plain unit,
\* the same unit with leading whitespace, and a markup-sensitive character.
Units == { <<>>, <<"a">>, <<" ", "a">>, <<"<">> }

\* --------------------------------------------------------- string helpers
IsSpace(c) == c \in {" ", "\n", "\t"}

RECURSIVE LStrip(_)
LStrip(s) == IF s # <<>> /\ IsSpace(Head(s)) THEN LStrip(Tail(s)) ELSE s

RECURSIVE RStrip(_)
RStrip(s) ==
    IF s # <<>> /\ IsSpace(s[Len(s)]) THEN RStrip(SubSeq(s, 1, Len(s) - 1)) ELSE s

\* str.strip()
Strip(s) == LStrip(RStrip(s))

\* html.escape(s) with quote=True, one character at a time
EscapeChar(c) ==
    CASE c = "&"  -> <<"&", "a", "m", "p", ";">>
      [] c = "<"  -> <<"&", "l", "t", ";">>
      [] c = ">"  -> <<"&", "g", "t", ";">>
      [] c = "\"" -> <<"&", "q", "u", "o", "t", ";">>
      [] c = "'"  -> <<"&", "#", "x", "2", "7", ";">>
      [] OTHER    -> <<c>>

RECURSIVE HtmlEscape(_)
HtmlEscape(s) == IF s = <<>> THEN <<>> ELSE EscapeChar(Head(s)) \o HtmlEscape(Tail(s))

\* str.splitlines(keepends=True), "\n" being the only line boundary used
RECURSIVE SplitFrom(_, _)
SplitFrom(s, cur) ==
    IF s = <<>> THEN (IF cur = <<>> THEN <<>> ELSE <<cur>>)
    ELSE IF Head(s) = "\n" THEN <<cur \o <<"\n">>>> \o SplitFrom(Tail(s), <<>>)
    ELSE SplitFrom(Tail(s), cur \o <<Head(s)>>)

SplitLines(s) == SplitFrom(s, <<>>)

\* ------------------------------------------------- difflib.SequenceMatcher
\* IS_CHARACTER_JUNK, the charjunk of ndiff; linejunk is None (no junk)
CharJunk == {" ", "\t"}
LineJunk == {}

\* j2len of find_longest_match: length of the run of equal, non-junk
\* elements that ends at a[i], b[j] inside the window
RECURSIVE RunLen(_, _, _, _, _, _, _)
RunLen(a, b, i, j, alo, blo, junk) ==
    IF i < alo \/ j < blo THEN 0
    ELSE IF b[j + 1] \in junk \/ a[i + 1] # b[j + 1] THEN 0
    ELSE 1 + RunLen(a, b, i - 1, j - 1, alo, blo, junk)

RECURSIVE ExtendBack(_, _, _, _, _, _, _)
ExtendBack(a, b, m, alo, blo, junk, wantJunk) ==
    IF m[1] > alo /\ m[2] > blo
       /\ ((b[m[2]] \in junk) = wantJunk)
       /\ a[m[1]] = b[m[2]]
    THEN ExtendBack(a, b, <<m[1] - 1, m[2] - 1, m[3] + 1>>, alo, blo, junk, wantJunk)
    ELSE m

RECURSIVE ExtendFwd(_, _, _, _, _, _, _)
ExtendFwd(a, b, m, ahi, bhi, junk, wantJunk) ==
    IF m[1] + m[3] < ahi /\ m[2] + m[3] < bhi
       /\ ((b[m[2] + m[3] + 1] \in junk) = wantJunk)
       /\ a[m[1] + m[3] + 1] = b[m[2] + m[3] + 1]
    THEN ExtendFwd(a, b, <<m[1], m[2], m[3] + 1>>, ahi, bhi, junk, wantJunk)
    ELSE m

\* The (i, j) loops keep the first block of the greatest size they meet
FindLongestMatch(a, b, alo, ahi, blo, bhi, junk) ==
    LET Ends == { p \in (alo .. ahi - 1) \X (blo .. bhi - 1) :
                    RunLen(a, b, p[1], p[2], alo, blo, junk) > 0 }
        Size(p) == RunLen(a, b, p[1], p[2], alo, blo, junk)
        Before(p, q) == p[1] < q[1] \/ (p[1] = q[1] /\ p[2] < q[2])
        best == IF Ends = {} THEN <<alo, blo, 0>>
                ELSE LET e == CHOOSE p \in Ends :
                                /\ \A q \in Ends : Size(q) <= Size(p)
                                /\ \A q \in Ends : Size(q) = Size(p) /\ q # p => Before(p, q)
                     IN <<e[1] - Size(e) + 1, e[2] - Size(e) + 1, Size(e)>>
        m1 == ExtendBack(a, b, best, alo, blo, junk, FALSE)
        m2 == ExtendFwd(a, b, m1, ahi, bhi, junk, FALSE)
        m3 == ExtendBack(a, b, m2, alo, blo, junk, TRUE)
    IN ExtendFwd(a, b, m3, ahi, bhi, junk, TRUE)

\* The queue of get_matching_blocks followed by its sort: the blocks of the
\* left remainder, the block x found in the window, the blocks of the right
\* remainder
RECURSIVE Blocks(_, _, _, _, _, _, _)
BlocksAround(a, b, alo, ahi, blo, bhi, junk, x) ==
    IF x[3] = 0 THEN <<>>
    ELSE (IF alo < x[1] /\ blo < x[2]
          THEN Blocks(a, b, alo, x[1], blo, x[2], junk) ELSE <<>>)
         \o <<x>>
         \o (IF x[1] + x[3] < ahi /\ x[2] + x[3] < bhi
             THEN Blocks(a, b, x[1] + x[3], ahi, x[2] + x[3], bhi, junk) ELSE <<>>)

Blocks(a, b, alo, ahi, blo, bhi, junk) ==
    BlocksAround(a, b, alo, ahi, blo, bhi, junk,
                 FindLongestMatch(a, b, alo, ahi, blo, bhi, junk))

\* Collapse of adjacent blocks; cur is (i1, j1, k1)
RECURSIVE Collapse(_, _)
Collapse(blocks, cur) ==
    IF blocks = <<>> THEN (IF cur[3] # 0 THEN <<cur>> ELSE <<>>)
    ELSE LET n == Head(blocks)
         IN IF cur[1] + cur[3] = n[1] /\ cur[2] + cur[3] = n[2]
            THEN Collapse(Tail(blocks), <<cur[1], cur[2], cur[3] + n[3]>>)
            ELSE (IF cur[3] # 0 THEN <<cur>> ELSE <<>>) \o Collapse(Tail(blocks), n)

GetMatchingBlocks(a, b, junk) ==
    Collapse(Blocks(a, b, 0, Len(a), 0, Len(b), junk), <<0, 0, 0>>)
        \o << <<Len(a), Len(b), 0>> >>

RECURSIVE Opcodes(_, _, _)
Opcodes(blocks, i, j) ==
    IF blocks = <<>> THEN <<>>
    ELSE LET m == Head(blocks)
             ai == m[1]
             bj == m[2]
             size == m[3]
             tag == IF i < ai /\ j < bj THEN "replace"
                    ELSE IF i < ai THEN "delete"
                    ELSE IF j < bj THEN "insert"
                    ELSE ""
         IN (IF tag # "" THEN << <<tag, i, ai, j, bj>> >> ELSE <<>>)
            \o (IF size # 0 THEN << <<"equal", ai, ai + size, bj, bj + size>> >> ELSE <<>>)
            \o Opcodes(Tail(blocks), ai + size, bj + size)

GetOpcodes(a, b, junk) == Opcodes(GetMatchingBlocks(a, b, junk), 0, 0)

RECURSIVE SumSizes(_)
SumSizes(blocks) == IF blocks = <<>> THEN 0 ELSE Head(blocks)[3] + SumSizes(Tail(blocks))

\* ratio() as the fraction <<numerator, denominator>> of 2.0*M/T
Ratio(a, b, junk) ==
    IF Len(a) + Len(b) = 0 THEN <<1, 1>>
    ELSE <<2 * SumSizes(GetMatchingBlocks(a, b, junk)), Len(a) + Len(b)>>

RatioGt(r, s) == r[1] * s[2] > s[1] * r[2]
RatioLt(r, s) == r[1] * s[2] < s[1] * r[2]

\* ----------------------------------------------------------- difflib.Differ
\* Mutant of Dump: every line of the range carries the first unit of the range
DumpFirstOnly(tag, x, lo, hi) == [k \in 1 .. (hi - lo) |-> <<tag, " ">> \o x[lo + 1]]

\* '%s %s' % (tag, x[i]) for i in range(lo, hi)
Dump(tag, x, lo, hi) == [k \in 1 .. (hi - lo) |-> <<tag, " ">> \o x[lo + k]]

PlainReplace(a, alo, ahi, b, blo, bhi) ==
    IF bhi - blo < ahi - alo
    THEN Dump("+", b, blo, bhi) \o Dump("-", a, alo, ahi)
    ELSE Dump("-", a, alo, ahi) \o Dump("+", b, blo, bhi)

Rep(c, n) == [k \in 1 .. n |-> c]

\* The atags / btags strings built from the character opcodes of a synch pair
RECURSIVE ATags(_)
ATags(ops) ==
    IF ops = <<>> THEN <<>>
    ELSE LET o == Head(ops)
             la == o[3] - o[2]
         IN (CASE o[1] = "replace" -> Rep("^", la)
               [] o[1] = "delete"  -> Rep("-", la)
               [] o[1] = "insert"  -> <<>>
               [] o[1] = "equal"   -> Rep(" ", la)) \o ATags(Tail(ops))

RECURSIVE BTags(_)
BTags(ops) ==
    IF ops = <<>> THEN <<>>
    ELSE LET o == Head(ops)
             lb == o[5] - o[4]
         IN (CASE o[1] = "replace" -> Rep("^", lb)
               [] o[1] = "delete"  -> <<>>
               [] o[1] = "insert"  -> Rep("+", lb)
               [] o[1] = "equal"   -> Rep(" ", lb)) \o BTags(Tail(ops))

KeepOriginalWs(s, tags) ==
    [k \in 1 .. (IF Len(s) < Len(tags) THEN Len(s) ELSE Len(tags)) |->
        IF tags[k] = " " /\ IsSpace(s[k]) THEN s[k] ELSE tags[k]]

\* Mutant of Qformat: the hint of the deleted line is yielded before the line
QformatHintFirst(aline, bline, atags, btags) ==
    LET at == RStrip(KeepOriginalWs(aline, atags))
        bt == RStrip(KeepOriginalWs(bline, btags))
    IN (IF at # <<>> THEN << <<"?", " ">> \o at \o <<"\n">> >> ELSE <<>>)
       \o << <<"-", " ">> \o aline >>
       \o << <<"+", " ">> \o bline >>
       \o (IF bt # <<>> THEN << <<"?", " ">> \o bt \o <<"\n">> >> ELSE <<>>)

Qformat(aline, bline, atags, btags) ==
    LET at == RStrip(KeepOriginalWs(aline, atags))
        bt == RStrip(KeepOriginalWs(bline, btags))
    IN << <<"-", " ">> \o aline >>
       \o (IF at # <<>> THEN << <<"?", " ">> \o at \o <<"\n">> >> ELSE <<>>)
       \o << <<"+", " ">> \o bline >>
       \o (IF bt # <<>> THEN << <<"?", " ">> \o bt \o <<"\n">> >> ELSE <<>>)

\* The body of the j / i loops of _fancy_replace on the pair a[i], b[j], r
\* being ratio() of the pair; st holds best_ratio, best_i, best_j, eqi, eqj
\* (-1 for None). The two quick ratios are upper bounds of ratio(), so the
\* test is ratio() > best_ratio
ScanPairWith(ai, i, bj, j, st, r) ==
    IF ai = bj
    THEN (IF st.eqi = -1 THEN [st EXCEPT !.eqi = i, !.eqj = j] ELSE st)
    ELSE IF RatioGt(r, st.best_ratio)
    THEN [st EXCEPT !.best_ratio = r, !.best_i = i, !.best_j = j]
    ELSE st

ScanPair(ai, i, bj, j, st) == ScanPairWith(ai, i, bj, j, st, Ratio(ai, bj, CharJunk))

\* The j / i loops of _fancy_replace from pair number p of the block on
RECURSIVE FancyScan(_, _, _, _, _, _, _, _)
FancyScan(a, alo, ahi, b, blo, bhi, p, st) ==
    IF p >= (ahi - alo) * (bhi - blo) THEN st
    ELSE FancyScan(a, alo, ahi, b, blo, bhi, p + 1,
                   ScanPair(a[alo + (p % (ahi - alo)) + 1], alo + (p % (ahi - alo)),
                            b[blo + (p \div (ahi - alo)) + 1], blo + (p \div (ahi - alo)),
                            st))

\* The synch point _fancy_replace settles on once its search ended in st:
\* none (a plain replace), a close pair, or failing that the first identical
\* pair; the cutoff is 0.75
SynchOf(st) ==
    IF RatioLt(st.best_ratio, <<75, 100>>)
    THEN (IF st.eqi = -1 THEN [kind |-> "plain", best_i |-> -1, best_j |-> -1]
          ELSE [kind |-> "identical", best_i |-> st.eqi, best_j |-> st.eqj])
    ELSE [kind |-> "close", best_i |-> st.best_i, best_j |-> st.best_j]

\* best_ratio starts at 0.74
FancySynch(a, alo, ahi, b, blo, bhi) ==
    SynchOf(FancyScan(a, alo, ahi, b, blo, bhi, 0,
                      [best_ratio |-> <<74, 100>>, best_i |-> -1, best_j |-> -1,
                       eqi |-> -1, eqj |-> -1]))

\* The '-', '?', '+', '?' lines of a synch pair with character opcodes ops
TagLines(aelt, belt, ops) == Qformat(aelt, belt, ATags(ops), BTags(ops))

\* The lines _fancy_replace yields for the synch pair itself
SynchLines(aelt, belt, kind) ==
    IF kind = "close" THEN TagLines(aelt, belt, GetOpcodes(aelt, belt, CharJunk))
    ELSE << <<" ", " ">> \o aelt >>

\* _fancy_replace on two non-empty ranges, sy being the synch point: the lines
\* before the synch pair, of the pair, and after it
RECURSIVE FancyHelper(_, _, _, _, _, _)
FancyAround(a, alo, ahi, b, blo, bhi, sy) ==
    IF sy.kind = "plain" THEN PlainReplace(a, alo, ahi, b, blo, bhi)
    ELSE FancyHelper(a, alo, sy.best_i, b, blo, sy.best_j)
         \o SynchLines(a[sy.best_i + 1], b[sy.best_j + 1], sy.kind)
         \o FancyHelper(a, sy.best_i + 1, ahi, b, sy.best_j + 1, bhi)

FancyReplace(a, alo, ahi, b, blo, bhi) ==
    FancyAround(a, alo, ahi, b, blo, bhi, FancySynch(a, alo, ahi, b, blo, bhi))

FancyHelper(a, alo, ahi, b, blo, bhi) ==
    IF alo < ahi
    THEN (IF blo < bhi THEN FancyReplace(a, alo, ahi, b, blo, bhi)
          ELSE Dump("-", a, alo, ahi))
    ELSE IF blo < bhi THEN Dump("+", b, blo, bhi)
    ELSE <<>>

\* Differ.compare: one generator per opcode of the line matcher
RECURSIVE CompareOps(_, _, _)
CompareOps(a, b, ops) ==
    IF ops = <<>> THEN <<>>
    ELSE LET o == Head(ops)
         IN (CASE o[1] = "replace" -> FancyReplace(a, o[2], o[3], b, o[4], o[5])
               [] o[1] = "delete"  -> Dump("-", a, o[2], o[3])
               [] o[1] = "insert"  -> Dump("+", b, o[4], o[5])
               [] o[1] = "equal"   -> Dump(" ", a, o[2], o[3]))
            \o CompareOps(a, b, Tail(ops))

\* difflib.ndiff(a, b): Differ(None, IS_CHARACTER_JUNK).compare(a, b)
Ndiff(a, b) == CompareOps(a, b, GetOpcodes(a, b, LineJunk))

\* An input of compute_diff: a list of units, or one string
ListText(units) == [list |-> TRUE, val |-> units]

RECURSIVE JoinUnits(_)
JoinUnits(units) ==
    IF units = <<>> THEN <<>> ELSE Head(units) \o <<"\n">> \o JoinUnits(Tail(units))

StrText(units) == [list |-> FALSE, val |-> JoinUnits(units)]

\* The sequence compute_diff hands to ndiff for an input
UnitsOf(text) == IF text.list THEN text.val ELSE SplitLines(text.val)

compute_diff(t1, t2) ==
    IF t1.list /\ t2.list THEN Ndiff(t1.val, t2.val)
    ELSE Ndiff(SplitLines(t1.val), SplitLines(t2.val))

\* ------------------------------------------------------------- pretty_diff
VARIABLES
    text1, text2,        \* st.session_state.text1 / text2
    diff,                \* the script returned by compute_diff
    escape_html, strip_whitespace, format_for_ai, show_only_changes,
    idx,                 \* position of the for loop in diff (1-based)
    line_num_1, line_num_2,
    formatted_diff,
    result,              \* the text returned by the call, empty while it runs
    pc,                  \* "start", "ready", "loop" or "returned"
    calls,               \* number of pretty_diff calls started
    first                \* history: options, script and text of the first call

vars == <<text1, text2, diff, escape_html, strip_whitespace, format_for_ai,
          show_only_changes, idx, line_num_1, line_num_2, formatted_diff,
          result, pc, calls, first>>

\* line[2:] and line[0]
Rest(line) == SubSeq(line, 3, Len(line))
Indicator(line) == line[1]

\* content of a line: stripped if asked, then escaped if asked
Content(line, strip, escape) ==
    LET c == IF strip THEN Strip(Rest(line)) ELSE Rest(line)
    IN IF escape THEN HtmlEscape(c) ELSE c

\* Mutant of HasChange: the indicator of the matching line is not looked at
HasChangeAnyLine(d, content) ==
    \E k \in 1 .. Len(d) : Strip(Rest(d[k])) = content

\* any(change_line[0] in ['+', '-'] for change_line in diff
\*     if change_line[2:].strip() == content)
HasChange(d, content) ==
    \E k \in 1 .. Len(d) : Strip(Rest(d[k])) = content /\ Indicator(d[k]) \in {"+", "-"}

BlankLine == <<"[Blank Line]">>
GreenSpan == "<span style='background-color: #ddffdd;'>"
RedSpan == "<span style='background-color: #ffdddd;'>"

\* Mutant of Label: no placeholder for an empty content
LabelRaw(content) == content

\* f"{content}" if content else "[Blank Line]"
Label(content) == IF content # <<>> THEN content ELSE BlankLine

\* A formatted line open + sign + num + ":  " + body + close; a line without
\* number (numbered = FALSE) is open + body + close
FLine(open, numbered, sign, num, body, close) ==
    [open |-> open, numbered |-> numbered, sign |-> sign, num |-> num,
     body |-> body, close |-> close]

\* Mutant of InitCounter: the counter keeps the value the last call left
InitCounterKeep(prev) == prev

\* line_num_1 = line_num_2 = 0
InitCounter(prev) == 0

\* formatted_diff = []
InitLines(prev) == <<>>

\* line_num_1 after the loop body has run on a line
NextLineNum1(ind, only, n) ==
    IF ind = " " THEN (IF only THEN n ELSE n + 1)
    ELSE IF ind = "+" THEN n
    ELSE IF ind = "-" THEN n + 1
    ELSE n

\* line_num_2 after the loop body has run on a line
NextLineNum2(ind, only, n) ==
    IF ind = " " THEN (IF only THEN n ELSE n + 1)
    ELSE IF ind = "+" THEN n + 1
    ELSE IF ind = "-" THEN n
    ELSE n

\* Mutant of EqualLines: the cross-reference exception also applies in
\* machine mode
EqualLinesAnyMode(content, d, only, ai, n1) ==
    IF only
    THEN (IF HasChange(d, content)
          THEN (IF content # <<>>
                THEN << FLine("<span>", FALSE, "", 0, content, "</span>") >>
                ELSE << FLine("", FALSE, "", 0, BlankLine, "") >>)
          ELSE <<>>)
    ELSE << FLine("", TRUE, "", n1, Label(content), "") >>

\* What the loop body appends for an unchanged line
EqualLines(content, d, only, ai, n1) ==
    IF only
    THEN (IF ai THEN <<>>
          ELSE IF HasChange(d, content)
          THEN (IF content # <<>>
                THEN << FLine("<span>", FALSE, "", 0, content, "</span>") >>
                ELSE << FLine("", FALSE, "", 0, BlankLine, "") >>)
          ELSE <<>>)
    ELSE << FLine("", TRUE, "", n1, Label(content), "") >>

\* What the loop body appends for an inserted or deleted line
ChangeLines(sign, span, content, ai, n) ==
    IF ai THEN << FLine("", TRUE, sign, n, Label(content), "") >>
    ELSE << FLine(span, TRUE, sign, n, Label(content), "</span>") >>

\* Mutant of Emit: a line with an unrecognised indicator is rendered as an
\* unchanged line
EmitUnknownAsEqual(ind, content, d, only, ai, n1, n2) ==
    IF ind = "+" THEN ChangeLines("+", GreenSpan, content, ai, n2)
    ELSE IF ind = "-" THEN ChangeLines("-", RedSpan, content, ai, n1)
    ELSE EqualLines(content, d, only, ai, n1)

\* What the loop body appends for a line; n1, n2 are the counters after
\* their update
Emit(ind, content, d, only, ai, n1, n2) ==
    IF ind = " " THEN EqualLines(content, d, only, ai, n1)
    ELSE IF ind = "+" THEN ChangeLines("+", GreenSpan, content, ai, n2)
    ELSE IF ind = "-" THEN ChangeLines("-", RedSpan, content, ai, n1)
    ELSE <<>>

\* sep.join(lines): the lines with sep between them
RECURSIVE Join(_, _)
Join(lines, sep) ==
    IF lines = <<>> THEN <<>>
    ELSE IF Len(lines) = 1 THEN lines
    ELSE <<Head(lines), sep>> \o Join(Tail(lines), sep)

Separator(ai) == IF ai THEN "\n" ELSE "<br>"

\* --------------------------------------------------------------- the steps
RECURSIVE SeqsUpTo(_)
SeqsUpTo(n) ==
    IF n = 0 THEN {<<>>}
    ELSE LET S == SeqsUpTo(n - 1)
         IN S \cup {Append(s, u) : s \in {t \in S : Len(t) = n - 1}, u \in Units}

NoFirst == [set |-> FALSE, escape_html |-> FALSE, strip_whitespace |-> FALSE,
            format_for_ai |-> FALSE, show_only_changes |-> FALSE,
            diff |-> <<>>, result |-> <<>>]

InitWith(n) ==
    /\ \E a \in SeqsUpTo(n), b \in SeqsUpTo(n), list \in BOOLEAN :
          /\ text1 = (IF list THEN ListText(a) ELSE StrText(a))
          /\ text2 = (IF list THEN ListText(b) ELSE StrText(b))
    /\ diff = <<>>
    /\ escape_html = FALSE /\ strip_whitespace = FALSE
    /\ format_for_ai = FALSE /\ show_only_changes = FALSE
    /\ idx = 1 /\ line_num_1 = 0 /\ line_num_2 = 0
    /\ formatted_diff = <<>>
    /\ result = <<>>
    /\ pc = "start"
    /\ calls = 0
    /\ first = NoFirst

Init == InitWith(MaxLen)

InitCalls == InitWith(MaxCallLen)

\* diff = compute_diff(st.session_state.text1, st.session_state.text2)
ComputeDiff ==
    /\ pc = "start"
    /\ diff' = compute_diff(text1, text2)
    /\ pc' = "ready"
    /\ UNCHANGED <<text1, text2, escape_html, strip_whitespace, format_for_ai,
                   show_only_changes, idx, line_num_1, line_num_2,
                   formatted_diff, result, calls, first>>

\* pretty_diff(diff, escape_html, strip_whitespace, format_for_ai,
\* show_only_changes) is entered
Call ==
    /\ pc \in {"ready", "returned"}
    /\ calls < MaxCalls
    /\ \E e \in BOOLEAN, s \in BOOLEAN, f \in BOOLEAN, o \in BOOLEAN :
          /\ escape_html' = e
          /\ strip_whitespace' = s
          /\ format_for_ai' = f
          /\ show_only_changes' = o
    /\ formatted_diff' = InitLines(formatted_diff)
    /\ line_num_1' = InitCounter(line_num_1)
    /\ line_num_2' = InitCounter(line_num_2)
    /\ idx' = 1
    /\ result' = <<>>
    /\ calls' = calls + 1
    /\ pc' = "loop"
    /\ UNCHANGED <<text1, text2, diff, first>>

\* The only call of one render pass
FirstCall == calls = 0 /\ Call

\* One iteration of "for line in diff"
Step ==
    /\ pc = "loop"
    /\ idx <= Len(diff)
    /\ LET line == diff[idx]
           content == Content(line, strip_whitespace, escape_html)
           ind == Indicator(line)
           n1 == NextLineNum1(ind, show_only_changes, line_num_1)
           n2 == NextLineNum2(ind, show_only_changes, line_num_2)
       IN /\ line_num_1' = n1
          /\ line_num_2' = n2
          /\ formatted_diff' = formatted_diff
                \o Emit(ind, content, diff, show_only_changes, format_for_ai, n1, n2)
    /\ idx' = idx + 1
    /\ UNCHANGED <<text1, text2, diff, escape_html, strip_whitespace,
                   format_for_ai, show_only_changes, result, pc, calls, first>>

\* return '\n'.join(formatted_diff) if format_for_ai else '<br>'.join(...)
Return ==
    /\ pc = "loop"
    /\ idx > Len(diff)
    /\ result' = Join(formatted_diff, Separator(format_for_ai))
    /\ pc' = "returned"
    /\ first' = IF calls = 1
                THEN [set |-> TRUE, escape_html |-> escape_html,
                      strip_whitespace |-> strip_whitespace,
                      format_for_ai |-> format_for_ai,
                      show_only_changes |-> show_only_changes,
                      diff |-> diff, result |-> result']
                ELSE first
    /\ UNCHANGED <<text1, text2, diff, escape_html, strip_whitespace,
                   format_for_ai, show_only_changes, idx, line_num_1,
                   line_num_2, formatted_diff, calls>>

\* One render pass over the script of two inputs
Next == ComputeDiff \/ FirstCall \/ Step \/ Return

Spec == Init /\ [][Next]_vars

\* Render calls made one after the other on the same script
NextCalls == ComputeDiff \/ Call \/ Step \/ Return

SpecCalls == InitCalls /\ [][NextCalls]_vars

\* ------------------------------------------------------ claims: vocabulary
KnownTags == {" ", "+", "-"}

\* Number of lines among d[1..n] whose indicator is in tags
RECURSIVE CountTags(_, _, _)
CountTags(d, n, tags) ==
    IF n = 0 THEN 0
    ELSE CountTags(d, n - 1, tags) + (IF Indicator(d[n]) \in tags THEN 1 ELSE 0)

\* Contents of the lines of d whose indicator is in tags, in script order
RECURSIVE Project(_, _)
Project(d, tags) ==
    IF d = <<>> THEN <<>>
    ELSE (IF Indicator(Head(d)) \in tags THEN <<Rest(Head(d))>> ELSE <<>>)
         \o Project(Tail(d), tags)

Elems(q) == {q[k] : k \in 1 .. Len(q)}

IsChangeLine(line) == Indicator(line) \in {"+", "-"}

\* The content of a line after the stripping step of the current call
AfterStrip(line) == IF strip_whitespace THEN Strip(Rest(line)) ELSE Rest(line)

\* The loop body runs on diff[idx] in this step
Iterates == pc = "loop" /\ idx <= Len(diff) /\ idx' = idx + 1

\* The step appends one line to the output
Appends == Len(formatted_diff') = Len(formatted_diff) + 1

Appended == formatted_diff'[Len(formatted_diff')]

SameOptionsAsFirst ==
    /\ escape_html = first.escape_html
    /\ strip_whitespace = first.strip_whitespace
    /\ format_for_ai = first.format_for_ai
    /\ show_only_changes = first.show_only_changes

\* ------------------------------------------------------------------ claims

\* C1: in one render pass both counters start at 0 and every op changes them
\* by the fixed policy, for every combination of the options: Equal adds 1 to
\* both, Insert adds 1 to the after counter only, Delete adds 1 to the before
\* counter only.
C1_CounterPolicy ==
    [][ /\ (pc' = "loop" /\ idx' = 1 => line_num_1' = 0 /\ line_num_2' = 0)
        /\ (Iterates =>
              LET ind == Indicator(diff[idx])
              IN /\ ind = " " => line_num_1' = line_num_1 + 1 /\ line_num_2' = line_num_2 + 1
                 /\ ind = "+" => line_num_1' = line_num_1 /\ line_num_2' = line_num_2 + 1
                 /\ ind = "-" => line_num_1' = line_num_1 + 1 /\ line_num_2' = line_num_2) ]_vars

\* C2: the contents of the Equal and Delete lines of compute_diff(before,
\* after), in script order, are the sequence before; the contents of the Equal
\* and Insert lines are the sequence after.
C2_Reconstruction ==
    pc # "start" =>
        /\ Project(diff, {" ", "-"}) = UnitsOf(text1)
        /\ Project(diff, {" ", "+"}) = UnitsOf(text2)

C2_Witness ==
    /\ pc = "ready"
    /\ \A t \in KnownTags : \E k \in 1 .. Len(diff) : Indicator(diff[k]) = t
    /\ Len(UnitsOf(text1)) = MaxLen

\* C3: the number shown on a Delete line and on a numbered Equal line is the
\* 1-based position of the unit in before, the number shown on an Insert line
\* is the position of the unit in after, in both modes and with onlyChanges
\* false or true.
C3_FaithfulNumbers ==
    [][ Iterates /\ Appends /\ Appended.numbered =>
          LET line == diff[idx]
              ind == Indicator(line)
              u1 == UnitsOf(text1)
              u2 == UnitsOf(text2)
          IN /\ ind \in {" ", "-"} =>
                   /\ Appended.num = CountTags(diff, idx, {" ", "-"})
                   /\ Appended.num \in 1 .. Len(u1)
                   /\ u1[Appended.num] = Rest(line)
             /\ ind = "+" =>
                   /\ Appended.num = CountTags(diff, idx, {" ", "+"})
                   /\ Appended.num \in 1 .. Len(u2)
                   /\ u2[Appended.num] = Rest(line) ]_vars

\* C4: with onlyChanges in human mode an Equal op produces a line if and only
\* if some other op of the script is an Insert or a Delete with the same
\* post-strip content, for every setting of stripWhitespace and escapeMarkup;
\* the line shown has no added/removed container.
C4_CrossReference ==
    [][ Iterates /\ show_only_changes /\ ~format_for_ai /\ Indicator(diff[idx]) = " " =>
          /\ Appends <=>
                \E j \in 1 .. Len(diff) :
                    /\ j # idx
                    /\ IsChangeLine(diff[j])
                    /\ AfterStrip(diff[j]) = AfterStrip(diff[idx])
          /\ Appends => Appended.open \notin {GreenSpan, RedSpan} ]_vars

\* C5: with onlyChanges in machine mode the returned text has no line of an
\* Equal op and exactly one line for every Insert and Delete op, in script
\* order, joined by a plain newline.
C5_MachineOnlyChanges ==
    pc = "returned" /\ show_only_changes /\ format_for_ai =>
        LET ch == SelectSeq(diff, IsChangeLine)
            n == Len(ch)
        IN /\ Len(result) = (IF n = 0 THEN 0 ELSE 2 * n - 1)
           /\ \A k \in 1 .. n :
                 /\ result[2 * k - 1].numbered
                 /\ result[2 * k - 1].sign = Indicator(ch[k])
                 /\ result[2 * k - 1].body = Label(Content(ch[k], strip_whitespace, escape_html))
           /\ \A k \in 1 .. n - 1 : result[2 * k] = "\n"

C5_Witness ==
    /\ pc = "returned" /\ show_only_changes /\ format_for_ai
    /\ \E k \in 1 .. Len(diff) : Indicator(diff[k]) = " "
    /\ Len(SelectSeq(diff, IsChangeLine)) >= 2

\* C6: the rendering of compute_diff(X, X) has no Insert or Delete decoration
\* in either mode, and with onlyChanges the returned text is empty in both
\* modes.
C6_IdenticalInputs ==
    text1 = text2 /\ pc \in {"loop", "returned"} =>
        /\ \A k \in 1 .. Len(formatted_diff) :
              /\ formatted_diff[k].sign = ""
              /\ formatted_diff[k].open \notin {GreenSpan, RedSpan}
        /\ (pc = "returned" /\ show_only_changes => result = <<>>)

C6_Witness ==
    /\ text1 = text2 /\ Len(UnitsOf(text1)) >= 2
    /\ pc = "returned" /\ show_only_changes /\ ~format_for_ai
    /\ UnitsOf(text1)[1] = UnitsOf(text1)[2]

\* C7: a line emitted for an op whose content is zero-length after the
\* stripping step has the literal "[Blank Line]" as its content part, for
\* Equal, Insert and Delete ops, in both modes, and for Equal lines shown by
\* the onlyChanges exception of human mode.
C7_BlankPlaceholder ==
    [][ Iterates /\ Appends /\ AfterStrip(diff[idx]) = <<>> =>
          Appended.body = BlankLine ]_vars

C7_Witness ==
    /\ pc = "returned" /\ show_only_changes /\ ~format_for_ai
    /\ \E k \in 1 .. Len(formatted_diff) :
          ~formatted_diff[k].numbered /\ formatted_diff[k].body = BlankLine
    /\ \E k \in 1 .. Len(formatted_diff) :
          formatted_diff[k].numbered /\ formatted_diff[k].body = BlankLine

\* C8 (as stated): a script with an op whose tag is none of ' ', '+', '-'
\* never makes pretty_diff return a text; the call fails instead.
C8_FailFast ==
    (\E k \in 1 .. Len(diff) : Indicator(diff[k]) \notin KnownTags) => pc # "returned"

\* C8 (amended): an op whose tag is none of ' ', '+', '-' is skipped: it adds
\* no output line and changes neither counter, and the loop goes on to the
\* next op.
C8_SkipsUnknownTag ==
    [][ pc = "loop" /\ idx <= Len(diff) /\ Indicator(diff[idx]) \notin KnownTags =>
          /\ formatted_diff' = formatted_diff
          /\ line_num_1' = line_num_1
          /\ line_num_2' = line_num_2
          /\ idx' = idx + 1
          /\ pc' = "loop" ]_vars

C8_Witness ==
    /\ pc = "returned"
    /\ \E k \in 1 .. Len(diff) : Indicator(diff[k]) \notin KnownTags
    /\ Len(formatted_diff) = CountTags(diff, Len(diff), KnownTags)
    /\ ~show_only_changes

\* C9: a call starts both counters from zero and an empty output whatever
\* calls were made before, leaves the script unchanged, and returns the same
\* text as the first call of the process made with the same options.
C9_IndependentCalls ==
    /\ (pc = "loop" /\ idx = 1 =>
            line_num_1 = 0 /\ line_num_2 = 0 /\ formatted_diff = <<>>)
    /\ (first.set => diff = first.diff)
    /\ (pc = "returned" /\ first.set /\ SameOptionsAsFirst => result = first.result)

C9_Witness ==
    /\ pc = "returned" /\ calls >= 3
    /\ first.set /\ SameOptionsAsFirst
    /\ line_num_1 > 0 /\ line_num_2 > 0
    /\ result # <<>>

\* C10 (as stated): every element of compute_diff(before, after) is tagged
\* Equal, Insert or Delete; there is no element of another kind.
C10_OnlyThreeTags ==
    pc # "start" => \A k \in 1 .. Len(diff) : Indicator(diff[k]) \in KnownTags

\* C10 (amended): every element is tagged Equal, Insert or Delete and carries
\* the content of one input unit (of both inputs, of after, of before), or is
\* an intraline hint line tagged '?', which directly follows a Delete or an
\* Insert element.
C10_TagsWithHints ==
    pc # "start" =>
        \A k \in 1 .. Len(diff) :
            LET ind == Indicator(diff[k])
            IN /\ ind \in KnownTags \cup {"?"}
               /\ ind = " " => Rest(diff[k]) \in Elems(UnitsOf(text1)) \cap Elems(UnitsOf(text2))
               /\ ind = "-" => Rest(diff[k]) \in Elems(UnitsOf(text1))
               /\ ind = "+" => Rest(diff[k]) \in Elems(UnitsOf(text2))
               /\ ind = "?" => k > 1 /\ Indicator(diff[k - 1]) \in {"-", "+"}

C10_Witness ==
    /\ pc = "ready"
    /\ \E k \in 1 .. Len(diff) : Indicator(diff[k]) = "?"
    /\ \E k \in 1 .. Len(diff) : Indicator(diff[k]) = " "

====
